---- MODULE Spec2Model ----
(***************************************************************************)
(* A model of the decaf-ts for-angular component library and demo pages:   *)
(* the list component (refresh, pagination, search), the toast singleton,  *)
(* the model page, the crud form, the crud field validation, the click     *)
(* debounce and the pagination component.                                  *)
(* Every component has its own variables and its own specification; a      *)
(* specification leaves the variables of the other components unchanged.   *)
(***************************************************************************)
EXTENDS Integers, Sequences, FiniteSets, TLC

(* ---------------------------------------------------------------------- *)
(* Bounds of the model                                                      *)
(* ---------------------------------------------------------------------- *)

\* number of records in the data source of the list (uids 1..MaxItems)
MaxItems == 14
\* refresh() calls whose fetch has not yet resolved
MaxInFlight == 1
\* pending "refreshing = false" timers of the paginated list
MaxTimers == 1
\* cap of the list's page counter (infinite mode increments it without limit)
MaxPage == 11
\* cap of the number of displayed items (infinite mode appends without limit)
MaxShown == 14
\* window click events in one burst
MaxBurst == 3
\* milliseconds that pass in one step of the clock
TickMs == 25
\* the largest number of pages given to the pagination component
MaxTotal == 12
\* calls of the toast component's methods
MaxToasts == 3
\* times the model page is entered, and submit events it receives
MaxEnters == 2
MaxSubmits == 2
\* events the crud form emits
MaxEvents == 2
\* calls of the back button's backToPage
MaxBacks == 2
\* delete notifications the list handles
MaxDeletes == 2

(* ---------------------------------------------------------------------- *)
(* Program constants                                                        *)
(* ---------------------------------------------------------------------- *)

\* refresh(): (this.limit > 12 ? 12 : this.limit)
LimitCap == 12
\* getFromModel()/parseResult(): this.getMoreData(100)
AssumedTotal == 100
\* ListComponent.start input default
StartDefault == 0
\* ngOnInit(): clickItemSubject.pipe(debounceTime(100))
DebounceMs == 100

VARIABLES
    \* ---- ListComponent (src/unnamed/part_010)
    lType,          \* "infinite" | "paginated"
    lUseModel,      \* TRUE: model/repository source, FALSE: source function
    lLimit,         \* this.limit
    lInit,          \* ngOnInit has run
    page,           \* this.page
    pages,          \* this.pages (0 = undefined)
    refreshing,     \* this.refreshing
    loadMoreData,   \* this.loadMoreData
    data,           \* this.data (<<>> = undefined or empty)
    items,          \* this.items (<<>> = undefined or empty)
    searchValue,    \* this.searchValue (NoSearch = undefined)
    pending,        \* refresh() calls suspended at their await, with their locals
    timers,         \* pending setTimeout(() => refreshing = false, 200)
    lOut,           \* data of the refresh events the last completed refresh() emitted
    lCall,          \* the handler that made the last refresh() call
    lFetched,       \* what the fetch of the last completed refresh() returned
    store,          \* the full result set of the data source, in query order
    lDeleted,       \* the uids of the delete notifications handled so far
    \* ---- ListComponent click debounce (src/unnamed/part_010)
    clkHeld,        \* the event debounceTime holds back (NoEvent = none)
    clkWait,        \* milliseconds since the held event arrived
    clkOut,         \* what clickEvent emitted in the last step
    clkBurst,       \* the window events of the current burst, in order
    clkEmits,       \* clickEvent emissions since the current burst began
    \* ---- PaginationComponent (src/src/lib/components/crud-field/crud-field.component.ts)
    pgInit,         \* ngOnInit has run
    pgData,         \* this.data: the 'pages' input, the number of pages
    pgCurrent,      \* this.current
    pgPages,        \* this.pages: the entries getPages built
    pgLast,         \* this.last (0 = undefined)
    pgOut,          \* the events clickEvent emitted in the last step
    pgOp,           \* the method called in the last step
    pgPrev,         \* this.current before the last step
    \* ---- NgxToastComponent (src/unnamed/part_000)
    component,      \* the module-level 'component': a toast, or NoToast (null)
    toast,          \* each toast element: "none", "created", "presented", "dismissed"
    tPc,            \* where each call of error/warn/inform/success stands
    tKind,          \* the method of each call
    tTarget,        \* the toast a call is dismissing in show()
    tTimer,         \* the calls whose setTimeout(present) is pending
    \* ---- ModelPage (src/app/pages/crud/crud.page.ts)
    operation,      \* @Input operation
    uid,            \* @Input uid, "" when the route carries none
    registered,     \* Model.get(modelName) finds a constructor
    hasRepository,  \* this._repository is set
    model,          \* this.model
    refreshPc,      \* refresh(): "idle", or "reading" while handleGet awaits
    submitPc,       \* handleSubmit(): "idle", or the awaited repository call
    deletes,        \* repo.delete promises nobody awaits
    calls,          \* the repository calls made so far
    effects,        \* what the page did and saw so far: logs, navigations, toasts,
                    \* repository operations completed with success ...
    mEnter,         \* what the last ionViewWillEnter did
    mFail,          \* what followed the last failed repository call
    \* ---- CrudFieldComponent (src/lib/components/crud-field)
    cOperation,     \* @Input operation
    cType,          \* @Input type
    cProps,         \* the configured constraints: required, minlength, ...
    cValue,         \* @Input value
    cFormGroup,     \* this.formGroup: Undefined, or the control's state
    cPc,            \* "new", "bound" (form group attached), "init" (after ngOnInit)
    cMarked,        \* markAsTouched() and markAsDirty() were called
    cFresh,         \* the view is rendered from the current state
    cErrors,        \* the rendered error element: the constraints it names
    \* ---- CrudFormComponent (src/lib/components/crud-form)
    fOperation,     \* @Input operation
    fUid,           \* @Input uid
    fFormGroup,     \* this.formGroup: Undefined, or the form's control
    fInit,          \* ngOnInit ran
    submitEvent,    \* the events emitted on submitEvent, oldest first
    fLast,          \* the last handler, the form group it saw, what it emitted
    \* ---- BackButtonComponent (src/app/models/UserModel.ts)
    preventDefault, \* @Input preventDefault (string or boolean)
    emitEvent,      \* @Input emitEvent (string or boolean)
    link,           \* @Input link: "none", "function" or "url"
    bInit,          \* ngOnInit ran
    bWindow,        \* the window events dispatched so far
    bNavs,          \* the navigation calls made so far
    bLast           \* what the last backToPage dispatched and called

listVars == <<lType, lUseModel, lLimit, lInit, page, pages, refreshing,
              loadMoreData, data, items, searchValue, pending, timers, lOut,
              lCall, lFetched, store, lDeleted>>

clickVars == <<clkHeld, clkWait, clkOut, clkBurst, clkEmits>>

pagVars == <<pgInit, pgData, pgCurrent, pgPages, pgLast, pgOut, pgOp, pgPrev>>

toastVars == <<component, toast, tPc, tKind, tTarget, tTimer>>

pageVars == <<operation, uid, registered, hasRepository, model, refreshPc,
              submitPc, deletes, calls, effects, mEnter, mFail>>

fieldVars == <<cOperation, cType, cProps, cValue, cFormGroup, cPc, cMarked,
               cFresh, cErrors>>

formVars == <<fOperation, fUid, fFormGroup, fInit, submitEvent, fLast>>

backVars == <<preventDefault, emitEvent, link, bInit, bWindow, bNavs, bLast>>

vars == <<listVars, clickVars, pagVars, toastVars, pageVars, fieldVars, formVars,
          backVars>>

\* what the handlers of one component leave alone: the other components
notList == <<clickVars, pagVars, toastVars, pageVars, fieldVars, formVars, backVars>>

notClick == <<listVars, pagVars, toastVars, pageVars, fieldVars, formVars, backVars>>

notPag == <<listVars, clickVars, toastVars, pageVars, fieldVars, formVars, backVars>>

notToast == <<listVars, clickVars, pagVars, pageVars, fieldVars, formVars, backVars>>

notPage == <<listVars, clickVars, pagVars, toastVars, fieldVars, formVars, backVars>>

notField == <<listVars, clickVars, pagVars, toastVars, pageVars, formVars, backVars>>

notForm == <<listVars, clickVars, pagVars, toastVars, pageVars, fieldVars, backVars>>

notBack == <<listVars, clickVars, pagVars, toastVars, pageVars, fieldVars, formVars>>

(* ---------------------------------------------------------------------- *)
(* Sequences                                                                *)
(* ---------------------------------------------------------------------- *)

Min(a, b) == IF a < b THEN a ELSE b

Max(a, b) == IF a > b THEN a ELSE b

\* Array.prototype.slice(from, to) with 0-based, end-exclusive indices
Slice(s, from, to) ==
    LET f == Min(Max(from, 0), Len(s))
        t == Min(Max(to, 0), Len(s))
    IN  IF t <= f THEN <<>> ELSE SubSeq(s, f + 1, t)

\* String.prototype.includes on sequences of characters
Includes(text, term) ==
    \E i \in 0..(Len(text) - Len(term)) :
        \A j \in 1..Len(term) : text[i + j] = term[j]

IsPrefix(s, t) == Len(s) <= Len(t) /\ s = SubSeq(t, 1, Len(s))

(* ---------------------------------------------------------------------- *)
(* The data source of the list                                              *)
(* ---------------------------------------------------------------------- *)

NoSearch == "undefined"

\* the searchable text of record uid (its mapped values)
ItemText(id) ==
    <<IF id % 2 = 0 THEN "a" ELSE "b", IF id % 3 = 0 THEN "c" ELSE "d">>

\* search terms the search bar can send (never empty: it sends undefined then)
Terms == {<<"a">>, <<"z">>}

Limits == {10, 13}

ListTypes == {"infinite", "paginated"}

FullSet == [i \in 1..MaxItems |-> i]

RECURSIVE parseSearchResults(_, _)
\* parseSearchResults(results, search), and the repository's where(condition):
\* Array.prototype.filter on the items one of whose values includes the term
parseSearchResults(results, search) ==
    IF results = <<>> THEN <<>>
    ELSE (IF Includes(ItemText(Head(results)), search)
          THEN <<Head(results)>> ELSE <<>>)
         \o parseSearchResults(Tail(results), search)

\* Paginator.page(p) of a paginator of size limit over the ordered result set
PaginatorPage(full, limit, p) == Slice(full, (p - 1) * limit, p * limit)

\* what the list's view is a view of: the result set, filtered when searching
ResultSet(sv) == IF sv = NoSearch THEN store ELSE parseSearchResults(store, sv)

(* ---------------------------------------------------------------------- *)
(* ListComponent                                                            *)
(* ---------------------------------------------------------------------- *)

\* lFetched before any refresh() has completed
NoFetch == [ok |-> FALSE, failed |-> FALSE, rows |-> <<>>]

\* getMoreData(length): st = [l |-> loadMoreData, p |-> pages]
getMoreData(length, st) ==
    IF length <= lLimit THEN [st EXCEPT !.l = FALSE]
    ELSE LET fl == length \div lLimit
             pg == IF fl * lLimit < length THEN fl + 1 ELSE fl
         IN  [l |-> IF pg = 1 THEN FALSE ELSE st.l, p |-> pg]

\* refresh(): let start
refreshStart(pg) == IF pg > 1 THEN (pg - 1) * lLimit ELSE StartDefault

\* refresh(): let limit
refreshLimit(pg) == pg * (IF lLimit > LimitCap THEN LimitCap ELSE lLimit)

\* the condition under which getFromRequest/getFromModel fetch at all
mustFetch(force, sv) == Len(data) = 0 \/ force \/ sv # NoSearch

\* refresh(event) up to its await, called with the page, search value and
\* loadMoreData the calling handler has just set.  The source function path
\* filters this.data synchronously when a search value is set.
refreshBegin(force, pg, sv, lmd, opName) ==
    LET fetch == mustFetch(force, sv)
        syncSearch == ~lUseModel /\ fetch /\ sv # NoSearch
        found == parseSearchResults(data, sv)
        call == [start |-> refreshStart(pg),
                 lim |-> refreshLimit(pg), pg |-> pg, sv |-> sv,
                 fetch |-> fetch, snap |-> data]
    IN  /\ Len(pending) < MaxInFlight
        /\ pg <= MaxPage
        /\ Len(items) <= MaxShown
        /\ Len(data) <= MaxShown
        /\ refreshing' = TRUE
        /\ page' = pg
        /\ searchValue' = sv
        /\ loadMoreData' = lmd
        /\ data' = IF syncSearch THEN found
                   ELSE IF lUseModel /\ fetch /\ sv = NoSearch THEN <<>>
                   ELSE data
        /\ items' = IF syncSearch THEN found ELSE items
        /\ pending' = Append(pending, call)
        /\ lOut' = <<>>
        /\ lCall' = opName
        /\ lFetched' = NoFetch
        /\ UNCHANGED <<lType, lUseModel, lLimit, pages, timers, store, lDeleted>>
        /\ UNCHANGED notList

\* getFromRequest after its await: [data, items, l, p]
getFromRequest(call) ==
    LET request == store
        st0 == [l |-> loadMoreData, p |-> pages]
        plain == call.fetch /\ call.sv = NoSearch
        st1 == IF plain THEN getMoreData(Len(request), st0) ELSE st0
        d == IF plain THEN request ELSE data
        it == IF plain
              THEN IF lType = "infinite"
                   THEN items \o Slice(d, call.start, call.lim)
                   ELSE Slice(request, call.start, call.lim)
              ELSE items
        st2 == IF st1.l /\ lType = "paginated"
               THEN getMoreData(Len(d), st1) ELSE st1
    IN  [data |-> d, items |-> it, l |-> st2.l, p |-> st2.p,
         fetched |-> [ok |-> TRUE, failed |-> FALSE,
                      rows |-> IF plain THEN Slice(request, call.start, call.lim)
                               ELSE d]]

\* getFromModel after its await; ok = FALSE: the repository call threw
getFromModel(call, ok) ==
    LET st0 == [l |-> loadMoreData, p |-> pages]
        request == IF call.sv = NoSearch
                   THEN PaginatorPage(store, lLimit, call.pg)
                   ELSE parseSearchResults(store, call.sv)
        done == call.fetch /\ ok
        st1 == IF ~done THEN st0
               ELSE IF call.sv = NoSearch THEN getMoreData(AssumedTotal, st0)
               ELSE getMoreData(Len(request), st0)
        base == IF call.sv = NoSearch THEN call.snap ELSE <<>>
        d == IF ~done THEN call.snap
             ELSE IF lType = "infinite" THEN base \o request ELSE request
        it == IF Len(d) > 0 THEN d ELSE items
        l2 == IF Len(d) > 0 /\ searchValue # NoSearch /\ Len(it) <= lLimit
              THEN FALSE ELSE st1.l
        st2 == IF lType = "paginated"
               THEN getMoreData(AssumedTotal, [l |-> l2, p |-> st1.p])
               ELSE [l |-> l2, p |-> st1.p]
    IN  [data |-> d, items |-> it, l |-> st2.l, p |-> st2.p,
         fetched |-> [ok |-> done, failed |-> call.fetch /\ ~ ok,
                      rows |-> IF done THEN request ELSE <<>>]]

\* refreshEventEmit(data): the data of the emitted event
refreshEventEmit(its) == <<its>>

\* refresh() from the resolution of its fetch to its end
refreshEnd(i, r) ==
        /\ data' = r.data
        /\ items' = r.items
        /\ pages' = r.p
        /\ lOut' = refreshEventEmit(r.items)
        /\ lFetched' = r.fetched
        /\ pending' = SubSeq(pending, 1, i - 1) \o SubSeq(pending, i + 1, Len(pending))
        /\ IF lType = "infinite"
           THEN IF page = r.p
                THEN /\ loadMoreData' = FALSE
                     /\ UNCHANGED <<page, refreshing, timers>>
                ELSE /\ page' = page + 1
                     /\ refreshing' = FALSE
                     /\ loadMoreData' = r.l
                     /\ UNCHANGED timers
           ELSE /\ timers' = timers + 1
                /\ loadMoreData' = r.l
                /\ UNCHANGED <<page, refreshing>>
        /\ UNCHANGED <<lType, lUseModel, lLimit, lInit, searchValue, lCall, store, lDeleted>>
        /\ UNCHANGED notList

\* ngOnInit(): await this.refresh()
ListNgOnInit ==
    /\ ~lInit
    /\ lInit' = TRUE
    /\ refreshBegin(FALSE, page, searchValue, loadMoreData, "init")

\* the fetch of a suspended refresh() resolves (source function)
RefreshFromRequest ==
    \E i \in 1..Len(pending) :
        /\ ~lUseModel
        /\ lType = "paginated" => timers < MaxTimers
        /\ refreshEnd(i, getFromRequest(pending[i]))

\* the fetch of a suspended refresh() resolves or throws (repository)
RefreshFromModel ==
    \E i \in 1..Len(pending), ok \in BOOLEAN :
        /\ lUseModel
        /\ lType = "paginated" => timers < MaxTimers
        /\ refreshEnd(i, getFromModel(pending[i], ok))

\* handleRefresh(event): pull to refresh, infinite scroll, back navigation end
HandleRefresh ==
    /\ lInit
    /\ lInit' = lInit
    /\ refreshBegin(TRUE, page, searchValue, loadMoreData, "refresh")

\* handlePaginate(event): the pagination component names a page
HandlePaginate ==
    \E p \in 1..Max(pages, 1) :
        /\ lInit
        /\ lType = "paginated"
        /\ lInit' = lInit
        /\ refreshBegin(TRUE, p, searchValue, loadMoreData, "paginate")

\* this.lastPage: never assigned after construction
lastPage == 1

\* handleSearch(value)
handleSearch(value, opName) ==
    /\ lInit
    /\ lInit' = lInit
    /\ IF lType = "infinite"
       THEN refreshBegin(TRUE, IF value = NoSearch THEN 1 ELSE page, value,
                         value = NoSearch, opName)
       ELSE refreshBegin(TRUE, IF value = NoSearch THEN lastPage ELSE page,
                         value, TRUE, opName)

\* the search bar sends a term
HandleSearch == \E t \in Terms : handleSearch(t, "search")

\* clearSearch(): handleSearch(undefined)
ClearSearch ==
    handleSearch(NoSearch, IF lCall = "search" /\ lFetched.ok
                           THEN "clearAfterSearch" ELSE "clear")

\* the 200 ms timer of a paginated refresh fires
RefreshingTimer ==
    /\ timers > 0
    /\ timers' = timers - 1
    /\ refreshing' = FALSE
    /\ UNCHANGED <<lType, lUseModel, lLimit, lInit, page, pages, loadMoreData,
                   data, items, searchValue, pending, lOut, lCall, lFetched,
                   store, lDeleted>>
    /\ UNCHANGED notList

\* the records the repository may delete
DeleteUids == {1, 2, 3}

\* handleDelete(uid): the items are the data without the record
handleDelete(u) == SelectSeq(data, LAMBDA item : item # u)

\* the repository deleted record u and notifies the list:
\* handleObserveEvent(table, DELETE, uid) -> handleDelete(uid), refreshEventEmit()
HandleObserveDelete ==
    \E u \in DeleteUids \ lDeleted :
        /\ lInit
        /\ lUseModel
        /\ Cardinality(lDeleted) < MaxDeletes
        /\ store' = SelectSeq(store, LAMBDA item : item # u)
        /\ items' = handleDelete(u)
        /\ lOut' = refreshEventEmit(items')
        /\ lDeleted' = lDeleted \cup {u}
        /\ lCall' = "delete"
        /\ lFetched' = NoFetch
        /\ UNCHANGED <<lType, lUseModel, lLimit, lInit, page, pages, refreshing,
                       loadMoreData, data, searchValue, pending, timers>>
        /\ UNCHANGED notList

ListInit ==
    /\ lType \in ListTypes
    /\ lUseModel \in BOOLEAN
    /\ lLimit \in Limits
    /\ lInit = FALSE
    /\ page = 1
    /\ pages = 0
    /\ refreshing = FALSE
    /\ loadMoreData = TRUE
    /\ data = <<>>
    /\ items = <<>>
    /\ searchValue = NoSearch
    /\ pending = <<>>
    /\ timers = 0
    /\ lOut = <<>>
    /\ lCall = "none"
    /\ lFetched = NoFetch
    /\ store = FullSet
    /\ lDeleted = {}

ListNext ==
    \/ ListNgOnInit
    \/ RefreshFromRequest
    \/ RefreshFromModel
    \/ HandleRefresh
    \/ HandlePaginate
    \/ HandleSearch
    \/ ClearSearch
    \/ RefreshingTimer
    \/ HandleObserveDelete

(* ---------------------------------------------------------------------- *)
(* ListComponent: the debounced click events                                *)
(* ---------------------------------------------------------------------- *)

NoEvent == [id |-> 0, detail |-> [uid |-> 0]]

\* event.detail of an event that has none
NoDetail == [uid |-> 0]

\* the ListItemClickEvent window events: with and without a detail
ClickEvents ==
    {[id |-> i, detail |-> d] : i \in 1..2, d \in {NoDetail, [uid |-> 7], [uid |-> 8]}}

\* clickEventEmit(event): the value clickEvent emits
clickEventEmit(event) == IF event.detail # NoDetail THEN event.detail ELSE event

\* handleClick without the debounce: every window event is emitted at once
HandleClickUndebounced ==
    \E e \in ClickEvents :
        /\ clkHeld = NoEvent \/ Len(clkBurst) < MaxBurst
        /\ clkHeld' = e
        /\ clkWait' = 0
        /\ clkOut' = <<clickEventEmit(e)>>
        /\ clkBurst' = IF clkHeld = NoEvent THEN <<e>> ELSE Append(clkBurst, e)
        /\ clkEmits' = IF clkHeld = NoEvent THEN 1 ELSE clkEmits + 1
        /\ UNCHANGED notClick

\* handleClick(event): clickItemSubject.next(event); debounceTime restarts
HandleClick ==
    \E e \in ClickEvents :
        /\ clkHeld = NoEvent \/ Len(clkBurst) < MaxBurst
        /\ clkHeld' = e
        /\ clkWait' = 0
        /\ clkOut' = <<>>
        /\ clkBurst' = IF clkHeld = NoEvent THEN <<e>> ELSE Append(clkBurst, e)
        /\ clkEmits' = IF clkHeld = NoEvent THEN 0 ELSE clkEmits
        /\ UNCHANGED notClick

\* time passes and the debounce is not yet due
ClickTick ==
    /\ clkHeld # NoEvent
    /\ clkWait + TickMs < DebounceMs
    /\ clkWait' = clkWait + TickMs
    /\ clkOut' = <<>>
    /\ UNCHANGED <<clkHeld, clkBurst, clkEmits>>
    /\ UNCHANGED notClick

\* 100 ms have passed since the last event: the subscriber runs
DebounceFire ==
    /\ clkHeld # NoEvent
    /\ clkWait + TickMs >= DebounceMs
    /\ clkOut' = <<clickEventEmit(clkHeld)>>
    /\ clkEmits' = clkEmits + 1
    /\ clkHeld' = NoEvent
    /\ clkWait' = 0
    /\ UNCHANGED clkBurst
    /\ UNCHANGED notClick

ClickInit ==
    /\ clkHeld = NoEvent
    /\ clkWait = 0
    /\ clkOut = <<>>
    /\ clkBurst = <<>>
    /\ clkEmits = 0

ClickNext ==
    \/ HandleClick
    \/ ClickTick
    \/ DebounceFire

(* ---------------------------------------------------------------------- *)
(* PaginationComponent                                                      *)
(* ---------------------------------------------------------------------- *)

\* the index of the ellipsis entry: null
NullIndex == 0

\* getPages(): the inner function getPage(index, text) on the list built so far
getPage(acc, index, text) ==
    IF \E k \in 1..Len(acc) : acc[k].index = index THEN acc
    ELSE Append(acc, [index |-> index,
                      text |-> IF index # NullIndex
                               THEN IF index >= 10 THEN ToString(index)
                                    ELSE "0" \o ToString(index) \o text
                               ELSE text])

RECURSIVE getPagesFromUnderFive(_, _, _)
\* the for loop of getPages() that lists every page only for total < 5
getPagesFromUnderFive(i, total, acc) ==
    IF i > total THEN acc
    ELSE getPagesFromUnderFive(i + 1, total,
            IF total < 5 THEN getPage(acc, i, "")
            ELSE IF i = 1 /\ total # 1 THEN getPage(acc, i, "")
            ELSE IF i <= total + 1 /\ i > total - 1 THEN getPage(acc, i, "")
            ELSE IF i + 1 >= total
                 THEN getPage(IF i + 1 = total /\ i # total
                              THEN getPage(acc, NullIndex, "...") ELSE acc,
                              i, "")
            ELSE acc)

RECURSIVE getPagesFrom(_, _, _)
\* getPages(): the for loop from i on
getPagesFrom(i, total, acc) ==
    IF i > total THEN acc
    ELSE getPagesFrom(i + 1, total,
            IF total <= 5 THEN getPage(acc, i, "")
            ELSE IF i = 1 /\ total # 1 THEN getPage(acc, i, "")
            ELSE IF i <= total + 1 /\ i > total - 1 THEN getPage(acc, i, "")
            ELSE IF i + 1 >= total
                 THEN getPage(IF i + 1 = total /\ i # total
                              THEN getPage(acc, NullIndex, "...") ELSE acc,
                              i, "")
            ELSE acc)

\* getPages(total, current)
getPages(total) == getPagesFrom(1, total, <<>>)

\* handleClick(direction, page): [current, out]
pagHandleClick(direction, pg, cur) ==
    LET c == IF pg # NullIndex THEN pg ELSE cur
    IN  [current |-> c, out |-> <<[direction |-> direction, page |-> c]>>]

\* the part of a step every method of the component shares
pagStep(op, r) ==
    /\ pgInit
    /\ pgCurrent' = r.current
    /\ pgOut' = r.out
    /\ pgOp' = op
    /\ pgPrev' = pgCurrent
    /\ UNCHANGED <<pgInit, pgData, pgPages, pgLast>>
    /\ UNCHANGED notPag

\* ngOnInit()
PagNgOnInit ==
    /\ ~pgInit
    /\ pgInit' = TRUE
    /\ pgPages' = getPages(pgData)
    /\ pgLast' = pgData
    /\ pgOp' = "ngOnInit"
    /\ UNCHANGED <<pgData, pgCurrent, pgOut, pgPrev>>
    /\ UNCHANGED notPag

\* next()
PagNextPage ==
    LET pg == pgCurrent + 1
    IN  pagStep("next", IF pg <= Len(pgPages)
                        THEN pagHandleClick("next", NullIndex, pg)
                        ELSE [current |-> pgCurrent, out |-> <<>>])

\* previous()
PagPrevious ==
    LET pg == pgCurrent - 1
    IN  pagStep("previous", IF pg > 0
                            THEN pagHandleClick("previous", NullIndex, pg)
                            ELSE [current |-> pgCurrent, out |-> <<>>])

\* navigate(page): a click on one of the entries, the ellipsis included
PagNavigate ==
    \E k \in 1..Len(pgPages) :
        LET pg == pgPages[k].index
        IN  pagStep("navigate",
                    IF pg # NullIndex /\ pgCurrent # pg
                    THEN pagHandleClick(IF pg > pgCurrent THEN "next" ELSE "previous",
                                        pg, pgCurrent)
                    ELSE [current |-> pgCurrent, out |-> <<>>])

PagInit ==
    /\ pgInit = FALSE
    /\ pgData \in 1..MaxTotal
    /\ pgCurrent \in 1..pgData
    /\ pgPages = <<>>
    /\ pgLast = 0
    /\ pgOut = <<>>
    /\ pgOp = "none"
    /\ pgPrev = pgCurrent

\* the pagination component at rest
PagIdle ==
    /\ PagInit
    /\ pgData = 1

PagNext ==
    \/ PagNgOnInit
    \/ PagNextPage
    \/ PagPrevious
    \/ PagNavigate

(* ---------------------------------------------------------------------- *)
(* NgxToastComponent                                                        *)
(* ---------------------------------------------------------------------- *)

\* component = null
NoToast == 0

\* the calls; call c creates toast c
ToastCalls == 1..MaxToasts

ToastKinds == {"error", "warn", "inform", "success"}

\* error(), warn(), inform(), success() up to the first await of show():
\* an existing component is dismissed first
ToastCall ==
    \E c \in ToastCalls, k \in ToastKinds :
        /\ tPc[c] = "idle"
        /\ tKind' = [tKind EXCEPT ![c] = k]
        /\ IF component # NoToast
           THEN /\ tTarget' = [tTarget EXCEPT ![c] = component]
                /\ tPc' = [tPc EXCEPT ![c] = "dismissing"]
           ELSE /\ tPc' = [tPc EXCEPT ![c] = "creating"]
                /\ UNCHANGED tTarget
        /\ UNCHANGED <<component, toast, tTimer>>
        /\ UNCHANGED notToast

\* show(): await component.dismiss() resolves
ShowDismissed ==
    \E c \in ToastCalls :
        /\ tPc[c] = "dismissing"
        /\ toast' = [toast EXCEPT ![tTarget[c]] =
                        IF @ = "presented" THEN "dismissed" ELSE @]
        /\ tPc' = [tPc EXCEPT ![c] = "creating"]
        /\ UNCHANGED <<component, tKind, tTarget, tTimer>>
        /\ UNCHANGED notToast

\* show(): component = await toastController.create(options); setTimeout(present)
ShowCreated ==
    \E c \in ToastCalls :
        /\ tPc[c] = "creating"
        /\ toast' = [toast EXCEPT ![c] = "created"]
        /\ component' = c
        /\ tTimer' = tTimer \cup {c}
        /\ tPc' = [tPc EXCEPT ![c] =
                      IF tKind[c] \in {"error", "warn"} THEN "returned" ELSE "done"]
        /\ UNCHANGED <<tKind, tTarget>>
        /\ UNCHANGED notToast

\* error(), warn(): component = await this.show(...); handleDidDismiss(component)
ToastAssign ==
    \E c \in ToastCalls :
        /\ tPc[c] = "returned"
        /\ component' = c
        /\ tPc' = [tPc EXCEPT ![c] = "waiting"]
        /\ UNCHANGED <<toast, tKind, tTarget, tTimer>>
        /\ UNCHANGED notToast

\* the timer of show() fires: (component as HTMLIonToastElement).present()
ToastPresent ==
    \E c \in tTimer :
        /\ tTimer' = tTimer \ {c}
        /\ toast' = IF component # NoToast /\ toast[component] = "created"
                    THEN [toast EXCEPT ![component] = "presented"]
                    ELSE toast
        /\ UNCHANGED <<component, tPc, tKind, tTarget>>
        /\ UNCHANGED notToast

\* a presented toast goes away: its duration ends or the user closes it
ToastExpires ==
    \E t \in ToastCalls :
        /\ toast[t] = "presented"
        /\ toast' = [toast EXCEPT ![t] = "dismissed"]
        /\ UNCHANGED <<component, tPc, tKind, tTarget, tTimer>>
        /\ UNCHANGED notToast

\* handleDidDismiss(toast): await toast.onDidDismiss(); component = null
HandleDidDismiss ==
    \E c \in ToastCalls :
        /\ tPc[c] = "waiting"
        /\ toast[c] = "dismissed"
        /\ component' = NoToast
        /\ tPc' = [tPc EXCEPT ![c] = "done"]
        /\ UNCHANGED <<toast, tKind, tTarget, tTimer>>
        /\ UNCHANGED notToast

ToastInit ==
    /\ component = NoToast
    /\ toast = [t \in ToastCalls |-> "none"]
    /\ tPc = [c \in ToastCalls |-> "idle"]
    /\ tKind = [c \in ToastCalls |-> "inform"]
    /\ tTarget = [c \in ToastCalls |-> NoToast]
    /\ tTimer = {}

ToastNext ==
    \/ ToastCall
    \/ ShowDismissed
    \/ ShowCreated
    \/ ToastAssign
    \/ ToastPresent
    \/ ToastExpires
    \/ HandleDidDismiss

(* ---------------------------------------------------------------------- *)
(* ModelPage                                                                *)
(* ---------------------------------------------------------------------- *)

Operations == {"create", "read", "update", "delete"}

\* the uid of the route: none, a number, not a number
Uids == {"", "1", "x"}

NaN == -1

\* Number(uid)
Number(u) ==
    CASE u = ""  -> 0
      [] u = "1" -> 1
      [] OTHER   -> NaN

NoEffects == [logs |-> 0, warns |-> 0, backs |-> 0, toasts |-> <<>>,
              notified |-> 0, thrown |-> 0, unhandled |-> 0, hung |-> 0,
              completed |-> 0]

NoFail == [call |-> "none", logged |-> FALSE, toasted |-> FALSE,
           propagated |-> FALSE]

\* consoleError(this, ...)
consoleError(e) == [e EXCEPT !.logs = @ + 1]

\* consoleWarn(this, ...)
consoleWarn(e) == [e EXCEPT !.warns = @ + 1]

\* RouterService.backToLastPage(): the back event and location.back()
backToLastPage(e) == [e EXCEPT !.backs = @ + 1]

\* the first, synchronous part of handleGet(uid) without the check of the uid
handleGetUnchecked(u) ==
    [back |-> FALSE, read |-> TRUE, key |-> Number(u)]

\* the first, synchronous part of handleGet(uid): without a uid it warns,
\* navigates back and rejects; otherwise it starts repository.read(Number(uid))
handleGet(u) ==
    IF u = ""
    THEN [back |-> TRUE, read |-> FALSE, key |-> NaN]
    ELSE [back |-> FALSE, read |-> TRUE, key |-> Number(u)]

\* parseData(data, operation), with 'id' the primary key
parseData(op, u) ==
    IF op # "delete"
    THEN [model |-> TRUE, keyed |-> u # "", key |-> Number(u)]
    ELSE [model |-> FALSE, keyed |-> TRUE, key |-> Number(u)]

\* ionViewWillEnter() -> refresh(uid), up to the await of handleGet
IonViewWillEnter ==
    /\ mEnter.n < MaxEnters
    /\ refreshPc = "idle"
    /\ IF ~ (hasRepository \/ registered)
       THEN \* the repository getter throws, refresh() logs it
            /\ effects' = consoleError(effects)
            /\ mEnter' = [n |-> mEnter.n + 1, backs |-> 0, reads |-> 0, logs |-> 1]
            /\ UNCHANGED <<hasRepository, model, refreshPc, calls>>
       ELSE /\ hasRepository' = TRUE
            /\ IF operation = "create"
               THEN /\ model' = IF hasRepository THEN model ELSE "blank"
                    /\ mEnter' = [n |-> mEnter.n + 1, backs |-> 0, reads |-> 0,
                                  logs |-> 0]
                    /\ UNCHANGED <<refreshPc, calls, effects>>
               ELSE LET g == handleGet(uid) IN
                    IF g.back
                    THEN \* warn, back, reject(undefined): refresh() logs it
                         /\ effects' = consoleError(backToLastPage(consoleWarn(effects)))
                         /\ model' = IF hasRepository THEN model ELSE "blank"
                         /\ mEnter' = [n |-> mEnter.n + 1, backs |-> 1,
                                       reads |-> 0, logs |-> 1]
                         /\ UNCHANGED <<refreshPc, calls>>
                    ELSE /\ calls' = Append(calls, [call |-> "read", model |-> FALSE,
                                                    key |-> g.key])
                         /\ refreshPc' = "reading"
                         /\ model' = IF hasRepository THEN model ELSE "blank"
                         /\ mEnter' = [n |-> mEnter.n + 1, backs |-> 0,
                                       reads |-> 1, logs |-> 0]
                         /\ UNCHANGED effects
    /\ UNCHANGED <<operation, uid, registered, submitPc, deletes, mFail>>
    /\ UNCHANGED notPage

\* repository.read settles: the model is assigned; a rejection is thrown inside
\* the async executor of handleGet, whose promise then never settles
ReadSettles ==
    \E ok \in BOOLEAN :
        /\ refreshPc = "reading"
        /\ ok => calls[Len(calls)].key # NaN
        /\ refreshPc' = "idle"
        /\ IF ok
           THEN /\ model' = "record"
                /\ UNCHANGED <<effects, mFail>>
           ELSE /\ effects' = [effects EXCEPT !.unhandled = @ + 1, !.hung = @ + 1]
                /\ mFail' = [call |-> "read", logged |-> FALSE, toasted |-> FALSE,
                             propagated |-> TRUE]
                /\ UNCHANGED model
        /\ UNCHANGED <<operation, uid, registered, hasRepository, submitPc,
                       deletes, calls, mEnter>>
        /\ UNCHANGED notPage

\* what handleSubmit does with a truthy result: notify the repository's
\* observers, go back, toast
submitDone(e, op) ==
    [backToLastPage(e) EXCEPT !.notified = @ + 1,
                              !.toasts = Append(@, <<"inform", op>>)]

\* handleEvent(SUBMIT_EVENT) -> handleSubmit(event), up to its first await
HandleSubmit ==
    /\ mEnter.n > 0
    /\ submitPc = "idle"
    /\ Len(SelectSeq(calls, LAMBDA c : c.call # "read")) < MaxSubmits
    /\ effects.thrown < MaxSubmits
    /\ IF ~ hasRepository
       THEN \* parseData reads repo.pk of undefined: logged and thrown again
            /\ effects' = [consoleError(effects) EXCEPT !.thrown = @ + 1]
            /\ UNCHANGED <<submitPc, deletes, calls>>
       ELSE LET d == parseData(operation, uid) IN
            IF operation \in {"create", "update"}
            THEN /\ calls' = Append(calls, [call |-> operation, model |-> d.model,
                                            key |-> d.key])
                 /\ submitPc' = operation
                 /\ UNCHANGED <<deletes, effects>>
            ELSE \* repo.delete(data) is not awaited: its promise is the result
                 /\ calls' = Append(calls, [call |-> "delete", model |-> d.model,
                                            key |-> d.key])
                 /\ deletes' = deletes + 1
                 /\ effects' = submitDone(effects, operation)
                 /\ UNCHANGED submitPc
    /\ UNCHANGED <<operation, uid, registered, hasRepository, model, refreshPc,
                   mEnter, mFail>>
    /\ UNCHANGED notPage

\* the awaited repo.create / repo.update settles
SubmitSettles ==
    \E ok \in BOOLEAN :
        /\ submitPc # "idle"
        /\ submitPc' = "idle"
        /\ IF ok
           THEN /\ effects' = [submitDone(effects, operation)
                                   EXCEPT !.completed = @ + 1]
                /\ UNCHANGED mFail
           ELSE \* catch: consoleError, throw new Error(error)
                /\ effects' = [consoleError(effects) EXCEPT !.thrown = @ + 1]
                /\ mFail' = [call |-> submitPc, logged |-> TRUE, toasted |-> FALSE,
                             propagated |-> TRUE]
        /\ UNCHANGED <<operation, uid, registered, hasRepository, model,
                       refreshPc, deletes, calls, mEnter>>
        /\ UNCHANGED notPage

\* a repo.delete promise settles, after handleSubmit went on without it
DeleteSettles ==
    \E ok \in BOOLEAN :
        /\ deletes > 0
        /\ deletes' = deletes - 1
        /\ IF ok
           THEN /\ effects' = [effects EXCEPT !.completed = @ + 1]
                /\ UNCHANGED mFail
           ELSE /\ effects' = [effects EXCEPT !.unhandled = @ + 1]
                /\ mFail' = [call |-> "delete", logged |-> FALSE,
                             toasted |-> FALSE, propagated |-> TRUE]
        /\ UNCHANGED <<operation, uid, registered, hasRepository, model,
                       refreshPc, submitPc, calls, mEnter>>
        /\ UNCHANGED notPage

PageInit ==
    /\ operation \in Operations
    /\ uid \in Uids
    /\ registered \in BOOLEAN
    /\ hasRepository = FALSE
    /\ model = "undefined"
    /\ refreshPc = "idle"
    /\ submitPc = "idle"
    /\ deletes = 0
    /\ calls = <<>>
    /\ effects = NoEffects
    /\ mEnter = [n |-> 0, backs |-> 0, reads |-> 0, logs |-> 0]
    /\ mFail = NoFail

PageIdle ==
    /\ PageInit
    /\ operation = "read"
    /\ uid = ""
    /\ registered = TRUE

PageNext ==
    \/ IonViewWillEnter
    \/ ReadSettles
    \/ HandleSubmit
    \/ SubmitSettles
    \/ DeleteSettles

(* ---------------------------------------------------------------------- *)
(* CrudFieldComponent. The form control, its validators and the error       *)
(* element of the template belong to NgxCrudFormField and the component's    *)
(* template; they are modelled from the component's tests.                   *)
(* ---------------------------------------------------------------------- *)

Undefined == [defined |-> FALSE]

\* a text value, and a number value with its text
TextValue(chars) == [num |-> FALSE, n |-> 0, text |-> chars]

NumberValue(k, chars) == [num |-> TRUE, n |-> k, text |-> chars]

EmptyValue == TextValue(<<>>)

\* the values of the component's tests
TextValues ==
    { EmptyValue,
      TextValue(<<"a", "b", "c">>),
      TextValue(<<"a", "b", "c", "d", "e", "f">>),
      TextValue(<<"1", "2", "3">>) }

NumberValues == { EmptyValue, NumberValue(3, <<"3">>), NumberValue(13, <<"1", "3">>) }

\* options[0].value of a radio group
FirstOption == TextValue(<<"a", "b", "c">>)

RadioValues == { EmptyValue, FirstOption }

FieldTypes == {"text", "number", "radio"}

ValuesOf(type) ==
    CASE type = "number" -> NumberValues
      [] type = "radio"  -> RadioValues
      [] OTHER           -> TextValues

Constraints == {"required", "minlength", "maxlength", "pattern", "max"}

\* the constraints' arguments in the tests
MinLength == 5
MaxLength == 5
MaxValue == 5
Letters == {"a", "b", "c", "d", "e", "f"}
Digits == <<"0", "1", "2", "3", "4", "5", "6", "7", "8", "9">>

IsDigit(ch) == \E d \in 1..10 : Digits[d] = ch

DigitOf(ch) == (CHOOSE d \in 1..10 : Digits[d] = ch) - 1

RECURSIVE DigitsValue(_)
DigitsValue(chars) ==
    IF chars = <<>> THEN 0
    ELSE 10 * DigitsValue(SubSeq(chars, 1, Len(chars) - 1))
         + DigitOf(chars[Len(chars)])

\* parseFloat of the control's value; NaN when it is not a number
ParseFloat(v) ==
    IF v.num THEN v.n
    ELSE IF v.text # <<>> /\ \A i \in 1..Len(v.text) : IsDigit(v.text[i])
         THEN DigitsValue(v.text)
         ELSE NaN

\* one validator: TRUE when it reports its error for value v
Validator(c, v) ==
    CASE c = "required"  -> v.text = <<>>
      [] c = "minlength" -> ~ v.num /\ v.text # <<>> /\ Len(v.text) < MinLength
      [] c = "maxlength" -> ~ v.num /\ Len(v.text) > MaxLength
      [] c = "pattern"   -> /\ v.text # <<>>
                            /\ \E i \in 1..Len(v.text) : v.text[i] \notin Letters
      [] c = "max"       -> ParseFloat(v) # NaN /\ ParseFloat(v) > MaxValue

\* the errors of the control: the keys of the validators that report
getErrors(props, v) == {c \in props : Validator(c, v)}

\* the form group with the field's control
FormGroupOf(v) == [defined |-> TRUE, value |-> v, touched |-> FALSE, dirty |-> FALSE]

\* the field is attached to its form group, the control holds the value
FieldBind ==
    /\ cPc = "new"
    /\ cPc' = "bound"
    /\ cFormGroup' = FormGroupOf(cValue)
    /\ cFresh' = FALSE
    /\ UNCHANGED <<cOperation, cType, cProps, cValue, cMarked, cErrors>>
    /\ UNCHANGED notField

\* ngOnInit() that drops the form group whatever the operation
FieldNgOnInitDropsGroup ==
    /\ cPc = "bound"
    /\ cPc' = "init"
    /\ cFormGroup' = Undefined
    /\ cFresh' = FALSE
    /\ UNCHANGED <<cOperation, cType, cProps, cValue, cMarked, cErrors>>
    /\ UNCHANGED notField

\* ngOnInit(): read and delete drop the form group; a radio without a value
\* takes the value of its first option
FieldNgOnInit ==
    /\ cPc = "bound"
    /\ cPc' = "init"
    /\ cFormGroup' =
          IF cOperation \in {"read", "delete"}
          THEN Undefined
          ELSE IF cType = "radio" /\ cValue = EmptyValue
               THEN [cFormGroup EXCEPT !.value = FirstOption]
               ELSE cFormGroup
    /\ cFresh' = FALSE
    /\ UNCHANGED <<cOperation, cType, cProps, cValue, cMarked, cErrors>>
    /\ UNCHANGED notField

\* formGroup.markAsTouched(); formGroup.markAsDirty()
FieldMark ==
    /\ cPc = "init"
    /\ ~ cMarked
    /\ cMarked' = TRUE
    /\ cFormGroup' = IF cFormGroup.defined
                     THEN [cFormGroup EXCEPT !.touched = TRUE, !.dirty = TRUE]
                     ELSE cFormGroup
    /\ cFresh' = FALSE
    /\ UNCHANGED <<cOperation, cType, cProps, cValue, cPc, cErrors>>
    /\ UNCHANGED notField

\* the user changes the control's value
FieldInput ==
    \E v \in ValuesOf(cType) :
        /\ cPc = "init"
        /\ cFormGroup.defined
        /\ v # cFormGroup.value
        /\ cFormGroup' = [cFormGroup EXCEPT !.value = v, !.touched = TRUE,
                                            !.dirty = TRUE]
        /\ cMarked' = TRUE
        /\ cFresh' = FALSE
        /\ UNCHANGED <<cOperation, cType, cProps, cValue, cPc, cErrors>>
        /\ UNCHANGED notField

\* fixture.detectChanges(): the error element is rendered for a touched and
\* dirty form group whose control has errors
FieldDetectChanges ==
    /\ cPc = "init"
    /\ ~ cFresh
    /\ cFresh' = TRUE
    /\ cErrors' = IF cFormGroup.defined /\ cFormGroup.touched /\ cFormGroup.dirty
                  THEN getErrors(cProps, cFormGroup.value)
                  ELSE {}
    /\ UNCHANGED <<cOperation, cType, cProps, cValue, cFormGroup, cPc, cMarked>>
    /\ UNCHANGED notField

FieldInit ==
    /\ cOperation \in Operations
    /\ cType \in FieldTypes
    /\ cProps \in SUBSET Constraints
    /\ cValue \in ValuesOf(cType)
    /\ cFormGroup = Undefined
    /\ cPc = "new"
    /\ cMarked = FALSE
    /\ cFresh = FALSE
    /\ cErrors = {}

FieldIdle ==
    /\ FieldInit
    /\ cOperation = "create"
    /\ cType = "text"
    /\ cProps = {}
    /\ cValue = EmptyValue

FieldNext ==
    \/ FieldBind
    \/ FieldNgOnInit
    \/ FieldMark
    \/ FieldInput
    \/ FieldDetectChanges

(* ---------------------------------------------------------------------- *)
(* CrudFormComponent. NgxFormService (validateFields, getFormData) is        *)
(* modelled from its use: the form is valid when its control has no errors.  *)
(* ---------------------------------------------------------------------- *)

\* the uid of the record: undefined ("") or a key
FormUids == {"", "1"}

\* the constraints of the form's control
FormProps == {"required", "maxlength"}

\* NgxFormService.validateFields(formGroup)
validateFields(fg) == fg.defined /\ getErrors(FormProps, fg.value) = {}

\* NgxFormService.getFormData(formGroup)
getFormData(fg) == [form |-> TRUE, value |-> fg.value, uid |-> ""]

\* the data of the event of handleDelete: this.uid
UidData(u) == [form |-> FALSE, value |-> EmptyValue, uid |-> u]

SubmitEvent(d) ==
    [data |-> d, component |-> "FormReactiveComponent", name |-> "submit"]

NoHandler == [handler |-> "none", formGroup |-> Undefined, emitted |-> <<>>]

\* ngOnInit(): read and delete have no form group
FormNgOnInit ==
    /\ ~ fInit
    /\ fInit' = TRUE
    /\ fFormGroup' = IF fOperation \in {"read", "delete"} THEN Undefined
                     ELSE fFormGroup
    /\ UNCHANGED <<fOperation, fUid, submitEvent, fLast>>
    /\ UNCHANGED notForm

\* the user fills the form in
FormInput ==
    \E v \in TextValues :
        /\ fInit
        /\ fFormGroup.defined
        /\ v # fFormGroup.value
        /\ fFormGroup' = [fFormGroup EXCEPT !.value = v, !.touched = TRUE,
                                            !.dirty = TRUE]
        /\ UNCHANGED <<fOperation, fUid, fInit, submitEvent, fLast>>
        /\ UNCHANGED notForm

\* submit(event) that emits without looking at validateFields
FormSubmitUnvalidated ==
    /\ fInit
    /\ Len(submitEvent) < MaxEvents
    /\ fFormGroup.defined
    /\ LET e == SubmitEvent(getFormData(fFormGroup)) IN
           /\ submitEvent' = Append(submitEvent, e)
           /\ fLast' = [handler |-> "submit", formGroup |-> fFormGroup,
                        emitted |-> <<e>>]
    /\ UNCHANGED <<fOperation, fUid, fFormGroup, fInit>>
    /\ UNCHANGED notForm

\* submit(event): returns false when validateFields fails, else emits the
\* submit event with the form's data
FormSubmit ==
    /\ fInit
    /\ Len(submitEvent) < MaxEvents
    /\ IF ~ validateFields(fFormGroup)
       THEN /\ fLast' = [handler |-> "submit", formGroup |-> fFormGroup,
                         emitted |-> <<>>]
            /\ UNCHANGED submitEvent
       ELSE LET e == SubmitEvent(getFormData(fFormGroup)) IN
            /\ submitEvent' = Append(submitEvent, e)
            /\ fLast' = [handler |-> "submit", formGroup |-> fFormGroup,
                         emitted |-> <<e>>]
    /\ UNCHANGED <<fOperation, fUid, fFormGroup, fInit>>
    /\ UNCHANGED notForm

\* handleDelete(): emits the submit event with the uid
FormHandleDelete ==
    /\ fInit
    /\ Len(submitEvent) < MaxEvents
    /\ LET e == SubmitEvent(UidData(fUid)) IN
           /\ submitEvent' = Append(submitEvent, e)
           /\ fLast' = [handler |-> "delete", formGroup |-> fFormGroup,
                        emitted |-> <<e>>]
    /\ UNCHANGED <<fOperation, fUid, fFormGroup, fInit>>
    /\ UNCHANGED notForm

FormInit ==
    /\ fOperation \in Operations
    /\ fUid \in FormUids
    /\ fFormGroup \in {FormGroupOf(v) : v \in TextValues}
    /\ fInit = FALSE
    /\ submitEvent = <<>>
    /\ fLast = NoHandler

FormIdle ==
    /\ FormInit
    /\ fOperation = "create"
    /\ fUid = ""
    /\ fFormGroup = FormGroupOf(EmptyValue)

FormNext ==
    \/ FormNgOnInit
    \/ FormInput
    \/ FormSubmit
    \/ FormHandleDelete

(* ---------------------------------------------------------------------- *)
(* BackButtonComponent. stringToBoolean (lib/helpers/utils) is modelled from *)
(* its use: the text 'true' and the boolean true give true.                  *)
(* ---------------------------------------------------------------------- *)

\* a StringOrBoolean: the boolean b, or the text of b
StringOrBoolean == [text : BOOLEAN, b : BOOLEAN]

\* stringToBoolean(value)
stringToBoolean(v) == [text |-> FALSE, b |-> v.b]

\* the value in a condition: a text that is not empty is true
Truthy(v) == v.text \/ v.b

Links == {"none", "function", "url"}

\* windowEventEmitter(BACK_BUTTON_NAVIGATION, detail), and who dispatched it
BackEvent(by, refresh) ==
    [name |-> "BackButtonNavigationEndEvent", by |-> by, refresh |-> refresh]

\* handleEndNavigation(forceRefresh): the events it dispatches
handleEndNavigation(emit, forceRefresh) ==
    IF Truthy(emit) THEN <<BackEvent("button", forceRefresh)>> ELSE <<>>

\* RouterService.backToLastPage(): its window event (detail {refres: true})
routerBackEvent == <<BackEvent("router", TRUE)>>

\* backToPage(forceRefresh) that does not look at preventDefault
backToPageNotPrevented(prevent, emit, lnk, forceRefresh) ==
    LET ev == handleEndNavigation(emit, forceRefresh) IN
    CASE lnk = "none"     -> [events |-> ev \o routerBackEvent,
                              navs |-> <<"backToLastPage">>]
      [] lnk = "function" -> [events |-> ev, navs |-> <<"link">>]
      [] OTHER            -> [events |-> ev, navs |-> <<"navigateTo">>]

\* backToPage(forceRefresh): the window events it dispatches and the
\* navigation calls it makes
backToPage(prevent, emit, lnk, forceRefresh) ==
    LET ev == handleEndNavigation(emit, forceRefresh) IN
    IF Truthy(prevent)
    THEN [events |-> ev, navs |-> <<>>]
    ELSE CASE lnk = "none"     -> [events |-> ev \o routerBackEvent,
                                   navs |-> <<"backToLastPage">>]
           [] lnk = "function" -> [events |-> ev, navs |-> <<"link">>]
           [] OTHER            -> [events |-> ev, navs |-> <<"navigateTo">>]

\* ngOnInit(): the inputs become booleans
BackNgOnInit ==
    /\ ~ bInit
    /\ bInit' = TRUE
    /\ preventDefault' = stringToBoolean(preventDefault)
    /\ emitEvent' = stringToBoolean(emitEvent)
    /\ UNCHANGED <<link, bWindow, bNavs, bLast>>
    /\ UNCHANGED notBack

\* the button is clicked: backToPage(forceRefresh)
BackToPage ==
    \E forceRefresh \in BOOLEAN :
        LET r == backToPage(preventDefault, emitEvent, link, forceRefresh) IN
            /\ bInit
            /\ bLast.n < MaxBacks
            /\ bWindow' = bWindow \o r.events
            /\ bNavs' = bNavs \o r.navs
            /\ bLast' = [n |-> bLast.n + 1, by |-> "click", events |-> r.events,
                         navs |-> r.navs]
            /\ UNCHANGED <<preventDefault, emitEvent, link, bInit>>
            /\ UNCHANGED notBack

\* window:BackButtonForceNavigationEvent -> handleModelPageEvent(event):
\* backToPage() with forceRefresh at its default, false
HandleModelPageEvent ==
    LET r == backToPage(preventDefault, emitEvent, link, FALSE) IN
        /\ bInit
        /\ bLast.n < MaxBacks
        /\ bWindow' = bWindow \o r.events
        /\ bNavs' = bNavs \o r.navs
        /\ bLast' = [n |-> bLast.n + 1, by |-> "window", events |-> r.events,
                     navs |-> r.navs]
        /\ UNCHANGED <<preventDefault, emitEvent, link, bInit>>
        /\ UNCHANGED notBack

BackInit ==
    /\ preventDefault \in StringOrBoolean
    /\ emitEvent \in StringOrBoolean
    /\ link \in Links
    /\ bInit = FALSE
    /\ bWindow = <<>>
    /\ bNavs = <<>>
    /\ bLast = [n |-> 0, by |-> "none", events |-> <<>>, navs |-> <<>>]

BackIdle ==
    /\ BackInit
    /\ preventDefault = [text |-> FALSE, b |-> FALSE]
    /\ emitEvent = [text |-> FALSE, b |-> TRUE]
    /\ link = "none"

BackNext ==
    \/ BackNgOnInit
    \/ BackToPage
    \/ HandleModelPageEvent

(* ---------------------------------------------------------------------- *)
(* Specifications: one per component, the others at rest                    *)
(* ---------------------------------------------------------------------- *)

\* the list at rest: constructed, ngOnInit not yet run
ListIdle ==
    /\ ListInit
    /\ lType = "infinite"
    /\ lUseModel = FALSE
    /\ lLimit = 10

InitList == ListInit /\ ClickInit /\ PagIdle /\ ToastInit /\ PageIdle /\ FieldIdle /\ FormIdle /\ BackIdle

SpecList == InitList /\ [][ListNext]_vars

InitClick == ListIdle /\ ClickInit /\ PagIdle /\ ToastInit /\ PageIdle /\ FieldIdle /\ FormIdle /\ BackIdle

InitPag == ListIdle /\ ClickInit /\ PagInit /\ ToastInit /\ PageIdle /\ FieldIdle /\ FormIdle /\ BackIdle

InitToast == ListIdle /\ ClickInit /\ PagIdle /\ ToastInit /\ PageIdle /\ FieldIdle /\ FormIdle /\ BackIdle

SpecToast == InitToast /\ [][ToastNext]_vars

InitPage == ListIdle /\ ClickInit /\ PagIdle /\ ToastInit /\ PageInit /\ FieldIdle /\ FormIdle /\ BackIdle

SpecPage == InitPage /\ [][PageNext]_vars

InitField == ListIdle /\ ClickInit /\ PagIdle /\ ToastInit /\ PageIdle /\ FieldInit /\ FormIdle /\ BackIdle

SpecField == InitField /\ [][FieldNext]_vars

InitForm == ListIdle /\ ClickInit /\ PagIdle /\ ToastInit /\ PageIdle /\ FieldIdle /\ FormInit /\ BackIdle

SpecForm == InitForm /\ [][FormNext]_vars

InitBack == ListIdle /\ ClickInit /\ PagIdle /\ ToastInit /\ PageIdle /\ FieldIdle /\ FormIdle /\ BackInit

SpecBack == InitBack /\ [][BackNext]_vars

SpecPag == InitPag /\ [][PagNext]_vars

SpecClick == InitClick /\ [][ClickNext]_vars

(* ---------------------------------------------------------------------- *)
(* Claims about the list                                                    *)
(* ---------------------------------------------------------------------- *)

\* every refresh() call has run to its end and the last fetch did not throw
ListSettled == lInit /\ pending = <<>> /\ lFetched.ok

\* C1: after any sequence of refresh, page-change and search operations the
\* displayed items are a slice (paginated mode: the current page of size
\* limit) or a prefix (infinite mode: the pages loaded so far, each of size
\* limit) of the full result set, for every limit, also a limit above 12.
C1_ViewIsPageOfResultSet ==
    ListSettled =>
        IF lType = "paginated"
        THEN items = PaginatorPage(ResultSet(searchValue), lLimit, page)
        ELSE \E k \in {page - 1, page} :
                /\ k >= 1
                /\ items = Slice(ResultSet(searchValue), 0, k * lLimit)

\* C6: every completed refresh emits exactly one refresh event, and its data
\* is the freshly fetched page of items: in paginated mode exactly the rows
\* the fetch returned, in infinite mode a list that ends with them.
C6_RefreshEventCarriesFetchedPage ==
    lFetched.ok =>
        /\ Len(lOut) = 1
        /\ IF lType = "paginated"
           THEN lOut[1] = lFetched.rows
           ELSE /\ Len(lFetched.rows) <= Len(lOut[1])
                /\ lFetched.rows = Slice(lOut[1], Len(lOut[1]) - Len(lFetched.rows),
                                         Len(lOut[1]))

\* C10: after a search followed by clearSearch() the displayed items hold no
\* leftover search results and are the unfiltered listing of the current
\* page (the first page in infinite mode).  Stated in its weakest reading:
\* the items are a non-empty run of the unfiltered result set that starts
\* with the first record of that page.
C10_ClearSearchShowsUnfiltered ==
    (ListSettled /\ lCall = "clearAfterSearch") =>
        LET first == IF lType = "paginated" THEN (page - 1) * lLimit ELSE 0
        IN  /\ items # <<>>
            /\ items = Slice(store, first, first + Len(items))

(* ---------------------------------------------------------------------- *)
(* Claims about the click debounce                                          *)
(* ---------------------------------------------------------------------- *)

\* C7: of the ListItemClickEvent window events of one burst (each less than
\* 100 ms after the one before) exactly one clickEvent is emitted, after the
\* burst, and it carries the last event of the burst (its detail when it has
\* one).
C7_BurstEmitsLastOnce ==
    /\ clkEmits <= 1
    /\ clkHeld # NoEvent => clkEmits = 0
    /\ clkOut # <<>> =>
          /\ clkEmits = 1
          /\ clkHeld = NoEvent
          /\ clkOut = <<clickEventEmit(clkBurst[Len(clkBurst)])>>

\* a burst of several events has been emitted
C7_Witness == clkOut # <<>> /\ Len(clkBurst) >= 2 /\ clkBurst[1] # clkBurst[2]

(* ---------------------------------------------------------------------- *)
(* Claims about the pagination component                                    *)
(* ---------------------------------------------------------------------- *)

\* C8: with N pages and current page c, next() moves to c + 1 and emits one
\* 'next' click event carrying page c + 1 whenever c < N, and changes and
\* emits nothing when c = N.
C8_NextAdvancesUntilLastPage ==
    pgOp = "next" =>
        IF pgPrev < pgData
        THEN /\ pgCurrent = pgPrev + 1
             /\ pgOut = <<[direction |-> "next", page |-> pgPrev + 1]>>
        ELSE /\ pgCurrent = pgPrev
             /\ pgOut = <<>>

(* ---------------------------------------------------------------------- *)
(* Claims about the toast component                                         *)
(* ---------------------------------------------------------------------- *)

\* C2: only one toast is displayed at a time: under any interleaving of
\* error, warn, inform and success calls a toast is presented only after the
\* toasts created before it have been dismissed, so never two are presented.
C2_AtMostOneToastPresented ==
    \A t1, t2 \in ToastCalls :
        (toast[t1] = "presented" /\ toast[t2] = "presented") => t1 = t2

(* ---------------------------------------------------------------------- *)
(* Claims about the model page                                              *)
(* ---------------------------------------------------------------------- *)

\* C3: a failing repository call (create, update or delete in handleSubmit,
\* read in refresh) is caught, logged and shown as a toast, and the error
\* does not propagate.
C3_RepositoryErrorsCaughtLoggedToasted ==
    mFail.call # "none" =>
        /\ mFail.logged
        /\ mFail.toasted
        /\ ~ mFail.propagated

\* C4 as stated: entering the page for read, update or delete without a uid
\* navigates back once and reads nothing; entering it for create navigates
\* nowhere.
C4_NoUidNavigatesBack ==
    mEnter.n > 0 =>
        /\ (operation # "create" /\ uid = "") =>
               (mEnter.backs = 1 /\ mEnter.reads = 0)
        /\ operation = "create" => mEnter.backs = 0

\* C4: on a page whose model is registered, entering for read, update or
\* delete without a uid navigates back once and reads nothing, and entering
\* for create navigates nowhere and reads nothing; on a page whose model is
\* not registered entering only logs the error: no navigation, no read.
C4_NoUidNavigatesBackIfRegistered ==
    mEnter.n > 0 =>
        IF registered
        THEN /\ (operation # "create" /\ uid = "") =>
                    (mEnter.backs = 1 /\ mEnter.reads = 0)
             /\ operation = "create" => (mEnter.backs = 0 /\ mEnter.reads = 0)
        ELSE mEnter.backs = 0 /\ mEnter.reads = 0 /\ mEnter.logs = 1

C4_Witness ==
    /\ mEnter.n > 0
    /\ registered
    /\ operation = "read"
    /\ uid = ""
    /\ mEnter.backs = 1
    /\ effects.backs >= 1
    /\ calls = <<>>

(* ---------------------------------------------------------------------- *)
(* Claims about the crud field                                              *)
(* ---------------------------------------------------------------------- *)

\* the value violates constraint c
Violates(c, v) ==
    CASE c = "required"  -> Len(v.text) = 0
      [] c = "minlength" -> ~ v.num /\ Len(v.text) \in 1..(MinLength - 1)
      [] c = "maxlength" -> ~ v.num /\ Len(v.text) >= MaxLength + 1
      [] c = "pattern"   -> \E i \in DOMAIN v.text : ~ (v.text[i] \in Letters)
      [] c = "max"       -> LET x == ParseFloat(v) IN x # NaN /\ ~ (x <= MaxValue)

ValidFormValue(v) == Len(v.text) \in 1..MaxLength

\* C5 as stated: every submit event the form emits carries validated form
\* data, and nothing is emitted when validation fails.
C5_EverySubmitEventValidated ==
    \A i \in DOMAIN submitEvent :
        /\ submitEvent[i].data.form
        /\ ValidFormValue(submitEvent[i].data.value)

\* C5: submit() emits one submit event carrying the form's data when
\* validateFields succeeded and nothing when it failed, so every event carrying
\* form data carries validated data; handleDelete() emits one submit event
\* carrying the uid, without validation.
C5_SubmitValidatesDeleteDoesNot ==
    /\ \A i \in DOMAIN submitEvent :
           submitEvent[i].data.form => ValidFormValue(submitEvent[i].data.value)
    /\ fLast.handler = "submit" =>
           IF fLast.formGroup.defined /\ ValidFormValue(fLast.formGroup.value)
           THEN /\ Len(fLast.emitted) = 1
                /\ fLast.emitted[1].data.form
                /\ fLast.emitted[1].data.value = fLast.formGroup.value
                /\ fLast.emitted[1] = submitEvent[Len(submitEvent)]
           ELSE fLast.emitted = <<>>
    /\ fLast.handler = "delete" =>
           /\ Len(fLast.emitted) = 1
           /\ ~ fLast.emitted[1].data.form
           /\ fLast.emitted[1].data.uid = fUid
           /\ fLast.emitted[1] = submitEvent[Len(submitEvent)]

C5_Witness ==
    /\ fLast.handler = "submit"
    /\ fFormGroup.defined
    /\ fFormGroup.value = TextValue(<<"a", "b", "c">>)
    /\ Len(submitEvent) = 2
    /\ ~ submitEvent[1].data.form
    /\ submitEvent[2].data.value = TextValue(<<"a", "b", "c">>)

(* ---------------------------------------------------------------------- *)
(* Claims about the list: failing queries, overlapping refreshes, deletes   *)
(* ---------------------------------------------------------------------- *)

\* C11: when the repository query of a refresh fails, the list falls back to
\* an empty list: the data the refresh returns and the data of the refresh
\* event it emits are empty.
C11_FailedQueryFallsBackToEmpty ==
    lFetched.failed =>
        /\ data = <<>>
        /\ lOut = <<<<>>>>

(* ---------------------------------------------------------------------- *)
(* Claims about the back button                                             *)
(* ---------------------------------------------------------------------- *)

\* C12: with preventDefault true a call of backToPage makes no navigation
\* call (no backToLastPage, no link function, no navigateTo): all it may do
\* is dispatch the button's own navigation event.
C12_PreventDefaultOnlyEmits ==
    (bLast.n > 0 /\ preventDefault.b) =>
        /\ bLast.navs = <<>>
        /\ \A i \in DOMAIN bLast.events : bLast.events[i].by = "button"
        /\ Len(bLast.events) <= 1

C12_Witness ==
    /\ bLast.n > 0
    /\ preventDefault.b
    /\ link = "url"
    /\ bNavs = <<>>
    /\ Len(bLast.events) = 1

\* C13: a call of backToPage dispatches BACK_BUTTON_NAVIGATION window events
\* when, and only when, emitEvent is true: with emitEvent false none is
\* dispatched, whatever the navigation path.
C13_EventsIffEmitEvent ==
    bLast.n > 0 => (bLast.events # <<>> <=> emitEvent.b)

(* ---------------------------------------------------------------------- *)
(* Claims about getPages                                                    *)
(* ---------------------------------------------------------------------- *)

\* the indexes of the entries of the pagination, in order
PageIndexes == [k \in 1..Len(pgPages) |-> pgPages[k].index]

\* C14: for total <= 5 getPages returns one entry per page 1..total in
\* ascending order; for total > 5 it returns the first page, an ellipsis entry
\* (index null) and the last pages, page total - 1 and page total; no index
\* appears twice.
C14_GetPagesAllOrEllipsis ==
    pgInit =>
        /\ IF pgData <= 5
           THEN PageIndexes = [k \in 1..pgData |-> k]
           ELSE PageIndexes = <<1, NullIndex, pgData - 1, pgData>>
        /\ \A j, k \in 1..Len(pgPages) :
               PageIndexes[j] = PageIndexes[k] => j = k

C14_Witness ==
    /\ pgInit
    /\ pgData = 12
    /\ PageIndexes = <<1, NullIndex, 11, 12>>
    /\ pgPages[2].text = "..."

(* ---------------------------------------------------------------------- *)
(* Claims about overlapping refreshes of the list                           *)
(* ---------------------------------------------------------------------- *)

\* C15: the refreshing flag is true whenever a refresh is fetching data, also
\* when refreshes overlap: no completion and no 200 ms timer of an earlier
\* refresh sets it to false while a later fetch is in progress.
C15_RefreshingWhileFetching ==
    (\E i \in 1..Len(pending) : pending[i].fetch) => refreshing

(* ---------------------------------------------------------------------- *)
(* Claims about the submit handling of the model page                       *)
(* ---------------------------------------------------------------------- *)

\* C16: handleSubmit calls the repository's delete only when the operation of
\* the page is delete; a submit event on a read page creates, updates and
\* deletes nothing.
C16_DeleteOnlyInDeleteMode ==
    \A i \in 1..Len(calls) :
        /\ calls[i].call = "delete" => operation = "delete"
        /\ operation = "read" => calls[i].call = "read"

\* C17: the page notifies the repository's observers, navigates back and
\* shows the success toast only after the repository operation completed with
\* success: each of the three happened at most as often as create, update and
\* delete operations completed successfully, so none happens for one that fails.
C17_SuccessEffectsOnlyAfterSuccess ==
    /\ effects.notified <= effects.completed
    /\ effects.backs - effects.warns <= effects.completed
    /\ Len(effects.toasts) <= effects.completed

(* ---------------------------------------------------------------------- *)
(* Claims about delete notifications of the list                            *)
(* ---------------------------------------------------------------------- *)

\* C18: after a delete notification the displayed items contain none of the
\* uids deleted so far: the deleted item is removed and an item deleted
\* earlier does not reappear.
C18_DeletedItemsStayRemoved ==
    lCall = "delete" =>
        \A u \in lDeleted : \A k \in 1..Len(items) : items[k] # u

====
